---- MODULE Spec2Model ----
(***************************************************************************)
(* chronos_sync: the calendar ingest and trigger planner                   *)
(* (src/src/lambda_functions/ical_processor/lambda_function.py) together   *)
(* with the collaborators it drives: the EventBridge scheduler (one        *)
(* schedule group, deleted asynchronously) and the S3 bucket; and the      *)
(* reminder dispatcher                                                     *)
(* (src/src/lambda_functions/notification_service/lambda_function.py)      *)
(* with its transport, the SNS topic.                                      *)
(*                                                                         *)
(* Time is counted in seconds.  An absolute instant is a number of seconds *)
(* since the model's epoch (00:00:00 UTC of day 0); a wall clock reading   *)
(* is the number of seconds a zone-free clock shows since 00:00:00 of      *)
(* day 0.  A Python datetime is a record [wall, tzinfo, utcoffset]: tzinfo *)
(* is None for a naive value, and for an aware value it is the zone name   *)
(* str(tzinfo) gives, with utcoffset the fixed offset of the pytz tzinfo   *)
(* instance the value carries.                                             *)
(***************************************************************************)
EXTENDS Integers, Sequences, FiniteSets, TLC

VARIABLES env, localZone, now, scheduler, bucket, inv, result, hist, disp, sns

vars == <<env, localZone, now, scheduler, bucket, inv, result, hist, disp, sns>>

None == "None"

(***************************************************************************)
(* Time zones (pytz).  The zone table holds, for each zone name pytz knows *)
(* in the model, its standard and daylight offsets and the two absolute    *)
(* instants between which daylight time is in force.  America/New_York     *)
(* springs forward at 02:00 EST of day 0 (07:00 UTC) and falls back at     *)
(* 02:00 EDT of day 1 (06:00 UTC): the year is compressed to two days so   *)
(* that both transitions lie in the model's horizon.                       *)
(***************************************************************************)
ZoneTable ==
    [z \in {"UTC", "America/New_York"} |->
        IF z = "UTC"
        THEN [std |-> 0, dst |-> 0, spring |-> 0, fall |-> 0]
        ELSE [std |-> -18000, dst |-> -14400, spring |-> 25200, fall |-> 108000]]

KnownZones == DOMAIN ZoneTable

\* utcoffset of zone at the absolute instant t
UtcOffset(zone, t) ==
    LET z == ZoneTable[zone]
    IN  IF t >= z.spring /\ t < z.fall THEN z.dst ELSE z.std

\* the offsets of zone under which the wall clock reading w exists
ValidOffsets(zone, w) ==
    {o \in {ZoneTable[zone].std, ZoneTable[zone].dst} : UtcOffset(zone, w - o) = o}

Naive(w) == [type |-> "datetime", wall |-> w, tzinfo |-> None, utcoffset |-> 0]

Aware(w, zone, off) ==
    [type |-> "datetime", wall |-> w, tzinfo |-> zone, utcoffset |-> off]

\* a datetime.date (the DTSTART of a whole-day event): day d, no time of day
Date(d) == [type |-> "date", wall |-> d * 86400, tzinfo |-> None, utcoffset |-> 0]

\* the absolute instant of an aware datetime
Epoch(dt) == dt.wall - dt.utcoffset

\* tz.localize(naive) with the default is_dst=False: an ambiguous reading
\* takes the standard offset, and so does a reading that falls in a gap
Localize(zone, dt) ==
    LET z == ZoneTable[zone]
        ok == ValidOffsets(zone, dt.wall)
    IN  Aware(dt.wall, zone, IF ok = {z.dst} THEN z.dst ELSE z.std)

\* dt.astimezone(pytz.UTC)
AsUTC(dt) == Aware(Epoch(dt), "UTC", 0)

\* naive.timestamp(): the reading is taken in the process's local zone
\* (fold = 0: the earlier instant of an ambiguous reading, the standard
\* offset in a gap); aware.timestamp() is the absolute instant
Timestamp(dt, tz) ==
    IF dt.tzinfo # None THEN Epoch(dt)
    ELSE LET z == ZoneTable[tz]
             ok == ValidOffsets(tz, dt.wall)
         IN  dt.wall - (IF z.dst \in ok THEN z.dst ELSE z.std)

\* datetime.now(): the naive wall clock of the process's local zone
LocalNow(t, tz) == Naive(t + UtcOffset(tz, t))

\* the "+HH:MM" suffix isoformat() gives an aware value, as a number of
\* seconds east of UTC; a naive value has none
IsoFormat(dt) ==
    [clock |-> dt.wall,
     suffix |-> IF dt.tzinfo = None THEN <<>> ELSE <<"offset", dt.utcoffset>>]

\* dt.strftime('%Y-%m-%dT%H:%M:%S'): the clock reading and nothing else
StrfTime(dt) == [clock |-> dt.wall, suffix |-> <<>>]

(***************************************************************************)
(* The planner's pure functions.                                           *)
(***************************************************************************)
\* Python truthiness of an environment value or payload field
Falsy(x) == x \in {None, ""}

\* the strings int() accepts, with their values; int() of any other string
\* raises ValueError
IntLiteral ==
    [s \in {"-5", "0", "1", "15", "60", "1440", "1441"} |->
        CASE s = "-5" -> -5 [] s = "0" -> 0 [] s = "1" -> 1 [] s = "15" -> 15
          [] s = "60" -> 60 [] s = "1440" -> 1440 [] s = "1441" -> 1441]

Getenv(e, name, default) == IF e[name] = None THEN default ELSE e[name]

validate_environment_variables(e) ==
    LET bucket_name == e["S3_BUCKET_NAME"]
        schedule_group == e["SCHEDULE_GROUP_NAME"]
        errors ==
            (IF Falsy(bucket_name)
             THEN <<"S3_BUCKET_NAME environment variable not set">> ELSE <<>>)
            \o (IF Falsy(schedule_group)
                THEN <<"SCHEDULE_GROUP_NAME environment variable not set">> ELSE <<>>)
    IN  [bucket_name |-> bucket_name, schedule_group |-> schedule_group,
         errors |-> errors]

\* variant: only an absent zip_file is refused, an empty one passes
validate_event_payload_absent_only(event) ==
    IF event.type # "dict"
    THEN [zip_file_b64 |-> event.zip_file, errors |-> <<>>, raised |-> "AttributeError"]
    ELSE IF event.zip_file.kind = "missing"
    THEN [zip_file_b64 |-> event.zip_file, raised |-> None,
          errors |-> <<"zip_file required in event payload">>]
    ELSE [zip_file_b64 |-> event.zip_file, raised |-> None, errors |-> <<>>]

\* event.get raises AttributeError on a payload that is not a mapping
validate_event_payload(event) ==
    IF event.type # "dict"
    THEN [zip_file_b64 |-> event.zip_file, errors |-> <<>>, raised |-> "AttributeError"]
    ELSE IF event.zip_file.kind \in {"missing", "empty"}
    THEN [zip_file_b64 |-> event.zip_file, raised |-> None,
          errors |-> <<"zip_file required in event payload">>]
    ELSE [zip_file_b64 |-> event.zip_file, raised |-> None, errors |-> <<>>]

get_schedule_configuration(e) ==
    LET minutes == Getenv(e, "NOTIFICATION_MINUTES_BEFORE", "15")
    IN  IF minutes \notin DOMAIN IntLiteral
        THEN [raised |-> "invalid literal for int() with base 10"]
        ELSE IF Falsy(e["NOTIFICATION_LAMBDA_ARN"]) \/ Falsy(e["SCHEDULER_ROLE_ARN"])
        THEN [raised |-> "NOTIFICATION_LAMBDA_ARN and SCHEDULER_ROLE_ARN environment variables are required"]
        ELSE [raised |-> None,
              notification_lambda_arn |-> e["NOTIFICATION_LAMBDA_ARN"],
              scheduler_role_arn |-> e["SCHEDULER_ROLE_ARN"],
              notification_minutes |-> IntLiteral[minutes],
              fallback_timezone |-> Getenv(e, "FALLBACK_TIMEZONE", "UTC")]

generate_schedule_name(event, tz) ==
    <<"event", event.uid, Timestamp(event.start_datetime, tz)>>

calculate_notification_time(event_time, minutes_before) ==
    [event_time EXCEPT !.wall = @ - 60 * minutes_before]

\* variant of build_schedule_payload that leaves notification_type out
build_schedule_payload_untyped(event) ==
    [event_summary |-> event.summary,
     event_location |-> event.location,
     event_time |-> IsoFormat(event.start_datetime)]

build_schedule_payload(event) ==
    [event_summary |-> event.summary,
     event_location |-> event.location,
     event_time |-> IsoFormat(event.start_datetime),
     notification_type |-> "calendar_reminder"]

\* variant: a naive notification time is taken to be UTC, whatever the
\* fallback zone
ResolveNotificationTimeAsUTC(notification_time, fallback_timezone) ==
    IF notification_time.tzinfo # None
    THEN [raised |-> None, time |-> notification_time]
    ELSE IF fallback_timezone \notin KnownZones
    THEN [raised |-> "UnknownTimeZoneError", time |-> notification_time]
    ELSE [raised |-> None, time |-> Aware(notification_time.wall, "UTC", 0)]

\* create_event_schedule, lines 441-464: the notification time the future
\* check compares; a naive time is localized in the fallback zone and
\* converted to UTC, and pytz.timezone raises on a name it does not know
ResolveNotificationTime(notification_time, fallback_timezone) ==
    IF notification_time.tzinfo # None
    THEN [raised |-> None, time |-> notification_time]
    ELSE IF fallback_timezone \notin KnownZones
    THEN [raised |-> "UnknownTimeZoneError", time |-> notification_time]
    ELSE [raised |-> None,
          time |-> AsUTC(Localize(fallback_timezone, notification_time))]

\* variant: a notification time equal to the current time is not past
IsPastStrictly(notification_time, current_time) ==
    Epoch(notification_time) < Epoch(current_time)

\* create_event_schedule, line 468: notification_time <= current_time
IsPast(notification_time, current_time) ==
    Epoch(notification_time) <= Epoch(current_time)

\* variant: the expression is built from the aware time's isoformat()
ScheduleExpressionIsoFormat(notification_time) ==
    <<"at(", IsoFormat(notification_time), ")">>

\* create_event_schedule, lines 485-495
ScheduleExpression(notification_time) ==
    IF notification_time.tzinfo # None
    THEN <<"at(", StrfTime(Naive(notification_time.wall)), ")">>
    ELSE <<"at(", StrfTime(notification_time), ")">>

ScheduleTimezone(notification_time, fallback_timezone) ==
    IF notification_time.tzinfo # None
    THEN notification_time.tzinfo
    ELSE fallback_timezone

\* create_event_schedule up to the scheduler call: what it raises, or the
\* request it sends (request.send = FALSE when the occurrence is skipped)
create_event_schedule(event, schedule_group, e, t, tz) ==
    LET cfg == get_schedule_configuration(e)
    IN  IF cfg.raised # None THEN [raised |-> cfg.raised, send |-> FALSE]
        ELSE
        LET schedule_name == generate_schedule_name(event, tz)
            notification_time ==
                calculate_notification_time(event.start_datetime, cfg.notification_minutes)
            resolved == ResolveNotificationTime(notification_time, cfg.fallback_timezone)
            current_time == Aware(t, "UTC", 0)
        IN  IF resolved.raised # None THEN [raised |-> resolved.raised, send |-> FALSE]
            ELSE IF IsPast(resolved.time, current_time)
            THEN [raised |-> None, send |-> FALSE]
            ELSE [raised |-> None, send |-> TRUE,
                  Name |-> schedule_name,
                  GroupName |-> schedule_group,
                  ScheduleExpression |-> ScheduleExpression(resolved.time),
                  ScheduleExpressionTimezone |->
                      ScheduleTimezone(resolved.time, cfg.fallback_timezone),
                  Target |-> [Arn |-> cfg.notification_lambda_arn,
                              RoleArn |-> cfg.scheduler_role_arn,
                              Input |-> build_schedule_payload(event)]]

\* variant: an occurrence is in the span when its start is, both ends of
\* the span included
start_in_span(span_start, span_stop, event_start, event_stop) ==
    span_start <= event_start /\ event_start <= span_stop

\* recurring_ical_events (the library called at line 43) keeps the
\* occurrences that happen within the span; the start of the span counts,
\* its stop does not
time_span_contains_event(span_start, span_stop, event_start, event_stop) ==
    IF event_start = event_stop
    THEN IF span_start = span_stop
         THEN event_start = span_start
         ELSE span_start <= event_start /\ event_start < span_stop
    ELSE IF span_start = span_stop
    THEN event_start <= span_start /\ span_start < event_stop
    ELSE event_start < span_stop /\ span_start < event_stop

\* when an occurrence is over, on its wall clock: its DTEND; a whole-day
\* event without one lasts a day
EventStop(v) ==
    IF v.DTSTART.type = "date" /\ v.DTEND = v.DTSTART THEN v.DTSTART.wall + 86400
    ELSE v.DTEND.wall

\* recurring_ical_events.of(cal).between(start, stop), line 43: the span's
\* naive ends are compared with each occurrence on the occurrence's own
\* wall clock
between(vevents, start, stop) ==
    SelectSeq(vevents,
              LAMBDA v : time_span_contains_event(start.wall, stop.wall,
                                                  v.DTSTART.wall, EventStop(v)))

\* variant: whole-day events are not skipped
get_upcoming_events_with_dates(ical_content, days_ahead, t, tz) ==
    LET start_date == LocalNow(t, tz)
        end_date == [start_date EXCEPT !.wall = @ + days_ahead * 86400]
        events == between(ical_content.vevents, start_date, end_date)
    IN  [i \in 1..Len(events) |->
            [summary |-> IF events[i].SUMMARY = None THEN "Untitled Event"
                         ELSE events[i].SUMMARY,
             start_datetime |-> events[i].DTSTART,
             location |-> IF events[i].LOCATION = None THEN "" ELSE events[i].LOCATION,
             description |-> "",
             uid |-> IF events[i].UID = None THEN "" ELSE events[i].UID]]

\* get_upcoming_events, lines 35-68: the occurrences the library finds in
\* the window that opens at the process's naive local clock, whole-day
\* events skipped, missing fields defaulted
get_upcoming_events(ical_content, days_ahead, t, tz) ==
    LET start_date == LocalNow(t, tz)
        end_date == [start_date EXCEPT !.wall = @ + days_ahead * 86400]
        Timed(v) == v.DTSTART.type = "datetime"
        events == SelectSeq(between(ical_content.vevents, start_date, end_date), Timed)
    IN  [i \in 1..Len(events) |->
            [summary |-> IF events[i].SUMMARY = None THEN "Untitled Event"
                         ELSE events[i].SUMMARY,
             start_datetime |-> events[i].DTSTART,
             location |-> IF events[i].LOCATION = None THEN "" ELSE events[i].LOCATION,
             description |-> "",
             uid |-> IF events[i].UID = None THEN "" ELSE events[i].UID]]

\* str.endswith
EndsWith(s, tail) ==
    /\ Len(s) >= Len(tail)
    /\ SubSeq(s, Len(s) - Len(tail) + 1, Len(s)) = tail

\* extract_ical_files_from_zip, lines 230-238
IsIcsName(filename) == EndsWith(filename, ".ics")

IsDirName(filename) == EndsWith(filename, "/")

extract_ical_files_from_zip(entries) ==
    SelectSeq(entries, LAMBDA en : IsIcsName(en.filename) /\ ~IsDirName(en.filename))

\* list_objects_v2 answers at most this many keys to one request
MaxKeys == 1000

\* the i-th of the numbered calendar names, c1001.ics, c1002.ics, ...
BulkName(i) == "c" \o ToString(1000 + i) \o ".ics"

\* the keys of the model in the order list_objects_v2 answers them, which is
\* the lexicographic order
AllKeys ==
    <<"a.ics", "b.ics">> \o [i \in 1..(MaxKeys + 1) |-> BulkName(i)]
        \o <<"folder/", "readme.txt">>

\* list_objects_v2 without a continuation token: the first page of the keys
list_objects_v2(b) ==
    LET keys == SelectSeq(AllKeys, LAMBDA k : k \in DOMAIN b)
    IN  SubSeq(keys, 1, IF Len(keys) < MaxKeys THEN Len(keys) ELSE MaxKeys)

\* list_ical_files_in_bucket, lines 276-291: one request, of whose keys those
\* that end in .ics are kept
list_ical_files_in_bucket(b) ==
    SelectSeq(list_objects_v2(b), IsIcsName)

(***************************************************************************)
(* Inputs: calendar documents, archives, invocation payloads, environments *)
(***************************************************************************)
NewYork == "America/New_York"

\* a VEVENT that lasts from start to stop
VEventUntil(summary, start, stop, location, uid) ==
    [SUMMARY |-> summary, DTSTART |-> start, DTEND |-> stop, LOCATION |-> location,
     UID |-> uid]

\* a VEVENT whose DTEND is its DTSTART
VEvent(summary, start, location, uid) == VEventUntil(summary, start, start, location, uid)

\* 08:10 UTC of day 0
EvUtc == VEvent("Standup", Aware(29400, "UTC", 0), "Room A", "u1")

\* 03:10 EDT of day 0, ten minutes after New York sprang forward
EvNewYork == VEvent("NYC Meeting", Aware(11400, NewYork, -14400), "NYC Office", "u2")

\* 03:10 of day 0 on a clock without a zone; no UID, no LOCATION
EvFloating == VEvent("Lunch", Naive(11400), None, None)

\* a whole-day event on day 1
EvAllDay == VEvent("Birthday", Date(1), None, "u4")

Ics(vevents) == [kind |-> "ics", vevents |-> vevents]

DocA == Ics(<<EvUtc, EvFloating>>)

DocB == Ics(<<EvAllDay, EvNewYork>>)

\* the stand-up once more, under the same UID and at the same start
EvUtcCopy == VEvent("Standup (copy)", Aware(29400, "UTC", 0), "Room B", "u1")

DocC == Ics(<<EvUtc, EvUtcCopy, EvFloating>>)

\* a file named .ics whose content is not a calendar
Malformed == [kind |-> "garbage", vevents |-> <<>>]

Entry(filename, content) == [filename |-> filename, content |-> content]

NoDoc == [kind |-> "other", vevents |-> <<>>]

ZipOf(entries) == [kind |-> "zip", entries |-> entries]

\* a zip_file value that is present but is not the base64 text of an archive
Corrupt == [kind |-> "corrupt", entries |-> <<>>]

ZipFiles ==
    { [kind |-> "missing", entries |-> <<>>],
      [kind |-> "empty", entries |-> <<>>],
      Corrupt,
      ZipOf(<<Entry("readme.txt", NoDoc)>>),
      ZipOf(<<Entry("a.ics", DocA)>>),
      ZipOf(<<Entry("b.ics", DocB), Entry("folder/", NoDoc), Entry("a.ics", DocA),
              Entry("readme.txt", NoDoc)>>),
      ZipOf(<<Entry("a.ics", DocC), Entry("b.ics", Malformed)>>) }

\* the invocation payloads: a mapping with or without zip_file, and a JSON
\* string (the archive itself in place of the mapping that should hold it)
Payloads ==
    {[type |-> "dict", zip_file |-> z] : z \in ZipFiles}
        \cup {[type |-> "str", zip_file |-> [kind |-> "missing", entries |-> <<>>]]}

\* the lead time and the fallback zone vary where both ARNs are set; with an
\* ARN missing get_schedule_configuration raises whatever they are
Environments ==
    {e \in
        [S3_BUCKET_NAME : {None, "", "test-bucket"},
         SCHEDULE_GROUP_NAME : {None, "test-group"},
         NOTIFICATION_LAMBDA_ARN : {None, "arn:lambda:notify"},
         SCHEDULER_ROLE_ARN : {None, "arn:role/scheduler"},
         NOTIFICATION_MINUTES_BEFORE : {None, "60", "abc"},
         FALLBACK_TIMEZONE : {None, NewYork, "Mars/Phobos"}] :
        (Falsy(e.NOTIFICATION_LAMBDA_ARN) \/ Falsy(e.SCHEDULER_ROLE_ARN))
            => (e.NOTIFICATION_MINUTES_BEFORE = None /\ e.FALLBACK_TIMEZONE = None)}

\* the planner's environment with nothing set
UnsetEnvironment ==
    [S3_BUCKET_NAME |-> None, SCHEDULE_GROUP_NAME |-> None,
     NOTIFICATION_LAMBDA_ARN |-> None, SCHEDULER_ROLE_ARN |-> None,
     NOTIFICATION_MINUTES_BEFORE |-> None, FALLBACK_TIMEZONE |-> None]

\* the instants the clock is read at
ClockValues == {0, 10500, 24900, 28500, 40000}

MaxInvocations == 2

\* time.sleep(30)
SleepSeconds == 30

(***************************************************************************)
(* The reminder dispatcher                                                 *)
(* (src/src/lambda_functions/notification_service/lambda_function.py).     *)
(* A Python str is a sequence of characters.  The characters of the model: *)
(* the letter A, the space, newline and tab, BEL (U+0007, a control        *)
(* character that is neither whitespace nor printable), EMOJI (U+1F4C5,    *)
(* printable and above 127), and the characters of the program's literals. *)
(***************************************************************************)
\* str.isspace
IsSpace(c) == c \in {" ", "\n", "\t"}

\* str.isprintable
IsPrintable(c) == c \notin {"\n", "\t", "BEL"}

\* ord(c) > 127
OrdAbove127(c) == c \in {"EMOJI"}

\* str.strip(): leading and trailing whitespace goes
Strip(s) ==
    LET kept == {i \in 1..Len(s) : ~IsSpace(s[i])}
    IN  IF kept = {} THEN <<>>
        ELSE SubSeq(s, CHOOSE i \in kept : \A j \in kept : i <= j,
                       CHOOSE i \in kept : \A j \in kept : i >= j)

\* str.split(): the maximal runs of characters that are not whitespace
Split(s) ==
    LET starts == SelectSeq([i \in 1..Len(s) |-> i],
                            LAMBDA i : ~IsSpace(s[i]) /\ (i = 1 \/ IsSpace(s[i - 1])))
        WordEnd(st) == CHOOSE j \in st..Len(s) :
                          /\ \A k \in st..j : ~IsSpace(s[k])
                          /\ (j = Len(s) \/ IsSpace(s[j + 1]))
    IN  [k \in 1..Len(starts) |-> SubSeq(s, starts[k], WordEnd(starts[k]))]

\* " ".join(words)
RECURSIVE JoinSpace(_)
JoinSpace(words) ==
    IF words = <<>> THEN <<>>
    ELSE IF Len(words) = 1 THEN words[1]
    ELSE words[1] \o <<" ">> \o JoinSpace(Tail(words))

\* ", ".join(names), for strings that are kept whole
RECURSIVE JoinComma(_)
JoinComma(names) ==
    IF names = <<>> THEN ""
    ELSE IF Len(names) = 1 THEN names[1]
    ELSE names[1] \o ", " \o JoinComma(Tail(names))

\* s[:k]
SliceTo(s, k) ==
    IF k >= 0
    THEN SubSeq(s, 1, IF k < Len(s) THEN k ELSE Len(s))
    ELSE SubSeq(s, 1, IF Len(s) + k > 0 THEN Len(s) + k ELSE 0)

Digit(d) ==
    CASE d = 0 -> "0" [] d = 1 -> "1" [] d = 2 -> "2" [] d = 3 -> "3" [] d = 4 -> "4"
      [] d = 5 -> "5" [] d = 6 -> "6" [] d = 7 -> "7" [] d = 8 -> "8" [] d = 9 -> "9"

\* str(n) of an int
RECURSIVE StrInt(_)
StrInt(n) ==
    IF n < 0 THEN <<"-">> \o StrInt(-n)
    ELSE IF n < 10 THEN <<Digit(n)>>
    ELSE StrInt(n \div 10) \o <<Digit(n % 10)>>

UntitledEvent == <<"U", "n", "t", "i", "t", "l", "e", "d", " ", "E", "v", "e", "n", "t">>

\* a value of event_summary: None or a str
NoneValue == [type |-> "NoneType", chars |-> <<>>]

Str(chars) == [type |-> "str", chars |-> chars]

\* variant of validate_environment_variables that lets a lead time of 0 pass
notification_service_validate_environment_variables_from_zero(e) ==
    LET sns_topic_arn == e["SNS_TOPIC_ARN"]
        notification_minutes_str == Getenv(e, "NOTIFICATION_MINUTES_BEFORE", "15")
        is_int == notification_minutes_str \in DOMAIN IntLiteral
        notification_minutes == IF is_int THEN IntLiteral[notification_minutes_str] ELSE 15
        errors ==
            (IF Falsy(sns_topic_arn)
             THEN <<"SNS_TOPIC_ARN environment variable not set">> ELSE <<>>)
            \o (IF ~is_int
                THEN <<"NOTIFICATION_MINUTES_BEFORE must be a valid integer">>
                ELSE IF notification_minutes < 0 \/ notification_minutes > 1440
                THEN <<"NOTIFICATION_MINUTES_BEFORE must be between 1 and 1440">>
                ELSE <<>>)
    IN  [sns_topic_arn |-> sns_topic_arn, notification_minutes |-> notification_minutes,
         errors |-> errors]

\* notification_service validate_environment_variables
notification_service_validate_environment_variables(e) ==
    LET sns_topic_arn == e["SNS_TOPIC_ARN"]
        notification_minutes_str == Getenv(e, "NOTIFICATION_MINUTES_BEFORE", "15")
        is_int == notification_minutes_str \in DOMAIN IntLiteral
        notification_minutes == IF is_int THEN IntLiteral[notification_minutes_str] ELSE 15
        errors ==
            (IF Falsy(sns_topic_arn)
             THEN <<"SNS_TOPIC_ARN environment variable not set">> ELSE <<>>)
            \o (IF ~is_int
                THEN <<"NOTIFICATION_MINUTES_BEFORE must be a valid integer">>
                ELSE IF notification_minutes <= 0 \/ notification_minutes > 1440
                THEN <<"NOTIFICATION_MINUTES_BEFORE must be between 1 and 1440">>
                ELSE <<>>)
    IN  [sns_topic_arn |-> sns_topic_arn, notification_minutes |-> notification_minutes,
         errors |-> errors]

required_fields == <<"event_summary", "event_time", "notification_type">>

\* variant: the error names the first missing field only
notification_service_validate_event_payload_first_only(event) ==
    IF event.type = "NoneType"
    THEN [errors |-> <<>>, raised |-> "TypeError"]
    ELSE LET missing_fields == SelectSeq(required_fields, LAMBDA f : f \notin event.fields)
         IN  [errors |-> IF missing_fields # <<>>
                         THEN <<"Missing required fields: " \o missing_fields[1]>>
                         ELSE <<>>,
              raised |-> None]

\* notification_service validate_event_payload; `field not in event` raises
\* TypeError on None and is membership on a list
notification_service_validate_event_payload(event) ==
    IF event.type = "NoneType"
    THEN [errors |-> <<>>, raised |-> "TypeError"]
    ELSE LET missing_fields == SelectSeq(required_fields, LAMBDA f : f \notin event.fields)
         IN  [errors |-> IF missing_fields # <<>>
                         THEN <<"Missing required fields: " \o JoinComma(missing_fields)>>
                         ELSE <<>>,
              raised |-> None]

sanitize_event_summary(summary) ==
    IF summary.type = "NoneType" \/ summary.chars = <<>> \/ Strip(summary.chars) = <<>>
    THEN UntitledEvent
    ELSE LET cleaned == JoinSpace(Split(Strip(summary.chars)))
         IN  SelectSeq(cleaned, LAMBDA char : IsPrintable(char) \/ OrdAbove127(char))

\* variant: no room is kept for the ellipsis
format_notification_message_no_room(event_data, notification_minutes) ==
    LET raw_summary == IF "event_summary" \in event_data.fields
                       THEN event_data.event_summary ELSE Str(<<>>)
        event_summary == sanitize_event_summary(raw_summary)
        suffix == <<" ", "(">> \o StrInt(notification_minutes) \o <<"m", "i", "n", ")">>
    IN  IF Len(event_summary) + Len(suffix) > 160
        THEN SliceTo(event_summary, 160 - Len(suffix)) \o <<".", ".", ".">> \o suffix
        ELSE event_summary \o suffix

\* variant: a message of exactly 160 characters is truncated as well
format_notification_message_at_limit(event_data, notification_minutes) ==
    LET raw_summary == IF "event_summary" \in event_data.fields
                       THEN event_data.event_summary ELSE Str(<<>>)
        event_summary == sanitize_event_summary(raw_summary)
        suffix == <<" ", "(">> \o StrInt(notification_minutes) \o <<"m", "i", "n", ")">>
    IN  IF Len(event_summary) + Len(suffix) >= 160
        THEN SliceTo(event_summary, 160 - Len(suffix) - 3) \o <<".", ".", ".">> \o suffix
        ELSE event_summary \o suffix

format_notification_message(event_data, notification_minutes) ==
    LET raw_summary == IF "event_summary" \in event_data.fields
                       THEN event_data.event_summary ELSE Str(<<>>)
        event_summary == sanitize_event_summary(raw_summary)
        suffix == <<" ", "(">> \o StrInt(notification_minutes) \o <<"m", "i", "n", ")">>
    IN  IF Len(event_summary) + Len(suffix) > 160
        THEN LET max_title_length == 160 - Len(suffix) - 3
                 truncated_title == SliceTo(event_summary, max_title_length) \o <<".", ".", ".">>
             IN  truncated_title \o suffix
        ELSE event_summary \o suffix

\* send_sms_notification: the request given to sns.publish
PublishRequest(topic_arn, message, subject) ==
    [TopicArn |-> topic_arn, Message |-> message, Subject |-> subject]

(***************************************************************************)
(* Dispatcher inputs.                                                      *)
(***************************************************************************)
\* a title of n letters
Filler(n) == [i \in 1..n |-> "A"]

Alphabet == {"A", " ", "\n", "\t", "BEL", "EMOJI"}

MaxShortLen == 4

MaxTitleLen == 165

\* every str of at most MaxShortLen characters over the alphabet
ShortTitles == UNION {[1..n -> Alphabet] : n \in 0..MaxShortLen}

\* titles of every length up to MaxTitleLen, as they are and with
\* whitespace around and inside them
LongTitles ==
    {Filler(n) : n \in 0..MaxTitleLen}
        \cup {<<"\t", " ">> \o Filler(n) \o <<" ", "\n", "EMOJI", " ">> : n \in 0..MaxTitleLen}

\* the lead times format_notification_message is applied to
FormatLeads == {1, 9, 10, 15, 99, 100, 999, 1000, 1440}

DictEvent(fields, summary) ==
    [type |-> "dict", fields |-> fields, event_summary |-> summary]

\* the event_data given to format_notification_message: event_summary a
\* str, None, or absent
FormatEvents ==
    {DictEvent({"event_summary", "event_time"}, Str(t)) : t \in ShortTitles \cup LongTitles}
        \cup {DictEvent({"event_summary", "event_time"}, NoneValue),
              DictEvent({"event_time"}, NoneValue)}

DispatcherEnvironments ==
    [SNS_TOPIC_ARN : {None, "arn:sns:calendar-notifications"},
     NOTIFICATION_MINUTES_BEFORE : {None, "-5", "0", "1", "60", "1440", "1441", "abc"}]

DispatchTitles ==
    {NoneValue, Str(<<>>), Str(<<"A">>), Str(<<"A", " ", "BEL">>), Str(Filler(MaxTitleLen))}

\* the payloads the dispatcher is invoked with: mappings holding any of the
\* required fields, the JSON value null, and a JSON list of the three names
DispatchEvents ==
    {DictEvent(fields, IF "event_summary" \in fields THEN s ELSE NoneValue) :
        fields \in SUBSET {"event_summary", "event_time", "notification_type"},
        s \in DispatchTitles}
        \cup {[type |-> "NoneType", fields |-> {}, event_summary |-> NoneValue],
              [type |-> "list",
               fields |-> {"event_summary", "event_time", "notification_type"},
               event_summary |-> NoneValue]}

(***************************************************************************)
(* Dispatcher state.                                                       *)
(*   disp  the dispatcher invocation: its position pc, the environment of  *)
(*         its process, the payload, the lead time and title the formatter *)
(*         worked with, the message it built, whether the formatter ran,   *)
(*         and what the handler returned                                   *)
(*   sns   the transport: the publish requests it has accepted, in order   *)
(***************************************************************************)
IdleDisp ==
    [pc |-> "idle",
     env |-> [SNS_TOPIC_ARN |-> None, NOTIFICATION_MINUTES_BEFORE |-> None],
     event |-> DictEvent({}, NoneValue),
     minutes |-> 15, title |-> <<>>, message |-> <<>>, formatted |-> FALSE,
     publishes |-> 0,
     result |-> [success |-> FALSE, error |-> "not invoked"]]

(***************************************************************************)
(* State.                                                                  *)
(*   env        the process environment (os.environ)                       *)
(*   localZone  the zone of the process's local clock                      *)
(*   now        the current absolute time                                  *)
(*   scheduler  the schedule group at the collaborator: its state and the  *)
(*              schedules it holds; DELETING is a deletion that was        *)
(*              requested and has not settled                              *)
(*   bucket     the S3 bucket: key -> document                             *)
(*   inv        the planner invocation in progress: its position pc and    *)
(*              the locals of lambda_handler and its callees               *)
(*   result     what the last invocation returned                          *)
(*   hist       history of the current invocation: the collaborator calls  *)
(*              in order (each with the group state it met), the           *)
(*              occurrences create_event_schedule has handled (each with   *)
(*              the clock it read and what it did), the requests the       *)
(*              scheduler accepted, the collaborators' state when the      *)
(*              invocation began and when it returned, and the number of   *)
(*              invocations so far                                         *)
(***************************************************************************)
EmptyBucket == [k \in {} |-> NoDoc]

Snapshot == [scheduler |-> scheduler, bucket |-> bucket]

\* the collaborators as a step leaves them
PostSnapshot == [scheduler |-> scheduler', bucket |-> bucket']

IdleInv ==
    [pc |-> "idle",
     event |-> [type |-> "dict", zip_file |-> [kind |-> "missing", entries |-> <<>>]],
     bucket_name |-> None, schedule_group |-> None, files_deleted |-> 0,
     ical_files |-> <<>>, todo |-> <<>>, ical_content |-> NoDoc, days_ahead |-> 7,
     events |-> <<>>, idx |-> 1, total_events |-> 0]

NoResult == [success |-> FALSE, error |-> "not invoked"]

Init ==
    /\ env \in Environments
    /\ localZone \in KnownZones
    /\ now = 0
    /\ scheduler = [state |-> "ABSENT", schedules |-> {}]
    /\ bucket = EmptyBucket
    /\ inv = IdleInv
    /\ result = NoResult
    /\ hist = [calls |-> <<>>, processed |-> <<>>, registered |-> {},
               pre |-> Snapshot, post |-> Snapshot, n |-> 0]
    /\ disp = IdleDisp
    /\ sns = <<>>

Call(op) == [op |-> op, state |-> scheduler.state, failed |-> FALSE]

\* a call the collaborator answered with an error
FailedCall(op) == [op |-> op, state |-> scheduler.state, failed |-> TRUE]

\* lambda_handler, lines 143-145: an exception raised at this step
Raise(op, error) ==
    /\ result' = [success |-> FALSE, error |-> error]
    /\ inv' = [inv EXCEPT !.pc = "done"]
    /\ hist' = [hist EXCEPT !.calls = IF op = None THEN @ ELSE Append(@, FailedCall(op)),
                            !.post = PostSnapshot]

\* lambda_handler, lines 103-111: an invocation begins and is pre-validated;
\* the validation runs outside the try block, so what it raises leaves the
\* handler
Invoke ==
    /\ inv.pc \in {"idle", "done", "crashed"}
    /\ hist.n < MaxInvocations
    /\ UNCHANGED <<env, localZone, now, scheduler, bucket, disp, sns>>
    /\ \E event \in Payloads :
        LET v == validate_environment_variables(env)
            p == validate_event_payload(event)
            started == [IdleInv EXCEPT !.event = event,
                                       !.bucket_name = v.bucket_name,
                                       !.schedule_group = v.schedule_group]
            fresh == [calls |-> <<>>, processed |-> <<>>, registered |-> {},
                      pre |-> Snapshot, post |-> PostSnapshot, n |-> hist.n + 1]
        IN  /\ hist' = fresh
            /\ IF v.errors # <<>>
               THEN /\ result' = [success |-> FALSE, error |-> v.errors[1]]
                    /\ inv' = [started EXCEPT !.pc = "done"]
               ELSE IF p.raised # None
               THEN /\ result' = [errorType |-> p.raised]
                    /\ inv' = [started EXCEPT !.pc = "crashed"]
               ELSE IF p.errors # <<>>
               THEN /\ result' = [success |-> FALSE, error |-> p.errors[1]]
                    /\ inv' = [started EXCEPT !.pc = "done"]
               ELSE /\ result' = NoResult
                    /\ inv' = [started EXCEPT !.pc = "delete_schedule_group"]

\* variant: the group is re-created right after the delete call, without
\* the wait
DeleteScheduleGroupNoWait ==
    /\ inv.pc = "delete_schedule_group"
    /\ UNCHANGED <<disp, sns>>
    /\ UNCHANGED <<env, localZone, now, bucket, result>>
    /\ scheduler' = IF scheduler.state = "ACTIVE"
                    THEN [scheduler EXCEPT !.state = "DELETING"] ELSE scheduler
    /\ inv' = [inv EXCEPT !.pc = "create_schedule_group"]
    /\ hist' = [hist EXCEPT !.calls = Append(@, Call("delete_schedule_group"))]

\* clear_event_bridge_schedules, line 171: delete_schedule_group.  The
\* collaborator marks an active group DELETING and answers at once; it
\* answers ResourceNotFoundException for an absent group (handled at line
\* 184) and ConflictException for a group that is being deleted (not handled)
DeleteScheduleGroup ==
    /\ inv.pc = "delete_schedule_group"
    /\ UNCHANGED <<disp, sns>>
    /\ UNCHANGED <<env, localZone, now, bucket>>
    /\ CASE scheduler.state = "ACTIVE" ->
              /\ scheduler' = [scheduler EXCEPT !.state = "DELETING"]
              /\ inv' = [inv EXCEPT !.pc = "sleep"]
              /\ hist' = [hist EXCEPT !.calls = Append(@, Call("delete_schedule_group"))]
              /\ UNCHANGED result
         [] scheduler.state = "ABSENT" ->
              /\ inv' = [inv EXCEPT !.pc = "create_schedule_group"]
              /\ hist' = [hist EXCEPT !.calls = Append(@, Call("delete_schedule_group"))]
              /\ UNCHANGED <<scheduler, result>>
         [] scheduler.state = "DELETING" ->
              /\ UNCHANGED scheduler
              /\ Raise("delete_schedule_group", "ConflictException")

\* variant of the wait that lasts until the deletion has settled
SleepUntilSettled ==
    /\ inv.pc = "sleep"
    /\ scheduler.state # "DELETING"
    /\ UNCHANGED <<disp, sns>>
    /\ now' = now + SleepSeconds
    /\ inv' = [inv EXCEPT !.pc = "create_schedule_group"]
    /\ hist' = [hist EXCEPT !.calls = Append(@, Call("sleep"))]
    /\ UNCHANGED <<env, localZone, scheduler, bucket, result>>

\* clear_event_bridge_schedules, lines 175-177: time.sleep(30)
Sleep ==
    /\ inv.pc = "sleep"
    /\ UNCHANGED <<disp, sns>>
    /\ now' = now + SleepSeconds
    /\ inv' = [inv EXCEPT !.pc = "create_schedule_group"]
    /\ hist' = [hist EXCEPT !.calls = Append(@, Call("sleep"))]
    /\ UNCHANGED <<env, localZone, scheduler, bucket, result>>

\* ensure_schedule_group_exists, lines 152-156: create_schedule_group; the
\* ConflictException of a group that exists (active or being deleted) is
\* swallowed
CreateScheduleGroup ==
    /\ inv.pc = "create_schedule_group"
    /\ UNCHANGED <<disp, sns>>
    /\ scheduler' = IF scheduler.state = "ABSENT"
                    THEN [state |-> "ACTIVE", schedules |-> {}]
                    ELSE scheduler
    /\ inv' = [inv EXCEPT !.pc = "clear_bucket"]
    /\ hist' = [hist EXCEPT !.calls = Append(@, Call("create_schedule_group"))]
    /\ UNCHANGED <<env, localZone, now, bucket, result>>

\* clear_bucket, lines 196-211
ClearBucket ==
    /\ inv.pc = "clear_bucket"
    /\ UNCHANGED <<disp, sns>>
    /\ bucket' = EmptyBucket
    /\ inv' = [inv EXCEPT !.pc = "extract_and_upload",
                          !.files_deleted = Cardinality(DOMAIN bucket)]
    /\ hist' = [hist EXCEPT !.calls = Append(@, Call("clear_bucket"))]
    /\ UNCHANGED <<env, localZone, now, scheduler, result>>

\* the bucket after the entries of es have been uploaded in order
Upload(b, es) ==
    LET names == {es[i].filename : i \in DOMAIN es}
        At(k) == {i \in DOMAIN es : es[i].filename = k}
        Last(k) == CHOOSE i \in At(k) : \A j \in At(k) : j <= i
    IN  [k \in DOMAIN b \cup names |->
            IF k \in names THEN es[Last(k)].content ELSE b[k]]

\* extract_and_upload_calendars, lines 258-273
ExtractAndUpload ==
    /\ inv.pc = "extract_and_upload"
    /\ UNCHANGED <<disp, sns>>
    /\ UNCHANGED <<env, localZone, now, scheduler>>
    /\ IF inv.event.zip_file.kind # "zip"
       THEN /\ UNCHANGED bucket
            /\ Raise(None, "BadZipFile")
       ELSE LET ical_files_data == extract_ical_files_from_zip(inv.event.zip_file.entries)
            IN  /\ bucket' = Upload(bucket, ical_files_data)
                /\ inv' = [inv EXCEPT
                       !.pc = "list_ical_files",
                       !.ical_files = [i \in 1..Len(ical_files_data) |->
                                          ical_files_data[i].filename]]
                /\ hist' = [hist EXCEPT !.calls =
                               IF ical_files_data = <<>> THEN @
                               ELSE Append(@, Call("upload_fileobj"))]
                /\ UNCHANGED result

\* process_calendars_and_create_schedules, lines 317-326
ListIcalFiles ==
    /\ inv.pc = "list_ical_files"
    /\ UNCHANGED <<disp, sns>>
    /\ inv' = [inv EXCEPT !.pc = IF list_ical_files_in_bucket(bucket) = <<>>
                                 THEN "return" ELSE "download",
                          !.todo = list_ical_files_in_bucket(bucket),
                          !.total_events = 0]
    /\ hist' = [hist EXCEPT !.calls = Append(@, Call("list_objects_v2"))]
    /\ UNCHANGED <<env, localZone, now, scheduler, bucket, result>>

\* process_calendars_and_create_schedules, lines 328-333: the next file is
\* downloaded and its upcoming events are extracted; a document that does
\* not parse raises
Download ==
    /\ inv.pc = "download"
    /\ UNCHANGED <<disp, sns>>
    /\ inv.todo # <<>>
    /\ UNCHANGED <<env, localZone, now, scheduler, bucket>>
    /\ LET ical_content == bucket[Head(inv.todo)]
       IN  IF ical_content.kind # "ics"
           THEN Raise("get_object", "ParseError")
           ELSE /\ inv' = [inv EXCEPT
                       !.pc = "create_schedules",
                       !.ical_content = ical_content,
                       !.events = get_upcoming_events(ical_content, inv.days_ahead,
                                                      now, localZone),
                       !.idx = 1]
                /\ hist' = [hist EXCEPT !.calls = Append(@, Call("get_object"))]
                /\ UNCHANGED result

\* the schedule the collaborator stores for an accepted request
Stored(req) ==
    [Name |-> req.Name, GroupName |-> req.GroupName,
     ScheduleExpression |-> req.ScheduleExpression,
     ScheduleExpressionTimezone |-> req.ScheduleExpressionTimezone,
     Target |-> req.Target]

\* the collaborator's answers to create_schedule: the group must exist and
\* the name must be new in it; a group that is being deleted may take a
\* schedule of a new name (it goes with the group when the deletion settles)
\* or refuse it
CreateScheduleAnswers(req) ==
    CASE scheduler.state = "ABSENT" -> {"ResourceNotFoundException"}
      [] scheduler.state = "DELETING" ->
            IF \E sch \in scheduler.schedules : sch.Name = req.Name
            THEN {"ConflictException"} ELSE {"ok", "ConflictException"}
      [] scheduler.state = "ACTIVE" ->
            IF \E sch \in scheduler.schedules : sch.Name = req.Name
            THEN {"ConflictException"} ELSE {"ok"}

NoRequest == [Name |-> None]

Processed(event, outcome, req) ==
    [event |-> event, now |-> now, outcome |-> outcome,
     request |-> IF outcome \in {"created", "rejected"} THEN Stored(req) ELSE NoRequest]

\* create_schedules_for_events, lines 307-309, one turn of the loop:
\* create_event_schedule for the next event
CreateEventSchedule ==
    /\ inv.pc = "create_schedules"
    /\ UNCHANGED <<disp, sns>>
    /\ inv.idx <= Len(inv.events)
    /\ UNCHANGED <<env, localZone, now, bucket>>
    /\ LET event == inv.events[inv.idx]
           req == create_event_schedule(event, inv.schedule_group, env, now, localZone)
       IN  IF req.raised # None
           THEN /\ UNCHANGED scheduler
                /\ result' = [success |-> FALSE, error |-> req.raised]
                /\ inv' = [inv EXCEPT !.pc = "done"]
                /\ hist' = [hist EXCEPT
                                !.post = PostSnapshot,
                                !.processed = Append(@, Processed(event, "raised", req))]
           ELSE IF ~req.send
           THEN /\ UNCHANGED <<scheduler, result>>
                /\ inv' = [inv EXCEPT !.idx = @ + 1]
                /\ hist' = [hist EXCEPT
                                !.processed = Append(@, Processed(event, "skipped", req))]
           ELSE \E answer \in CreateScheduleAnswers(req) :
                IF answer = "ok"
                THEN /\ scheduler' = [scheduler EXCEPT !.schedules = @ \cup {Stored(req)}]
                     /\ inv' = [inv EXCEPT !.idx = @ + 1]
                     /\ hist' = [hist EXCEPT
                                !.calls = Append(@, Call("create_schedule")),
                                !.processed = Append(@, Processed(event, "created", req)),
                                !.registered = @ \cup {Stored(req)}]
                     /\ UNCHANGED result
                ELSE /\ UNCHANGED scheduler
                     /\ result' = [success |-> FALSE, error |-> answer]
                     /\ inv' = [inv EXCEPT !.pc = "done"]
                     /\ hist' = [hist EXCEPT
                                !.calls = Append(@, FailedCall("create_schedule")),
                                !.processed = Append(@, Processed(event, "rejected", req)),
                                !.post = PostSnapshot]

\* variant of the end of a file that counts the registered occurrences only
FinishFileCountingRegistered ==
    /\ inv.pc = "create_schedules"
    /\ UNCHANGED <<disp, sns>>
    /\ inv.idx > Len(inv.events)
    /\ inv' = [inv EXCEPT !.pc = IF Tail(inv.todo) = <<>> THEN "return" ELSE "download",
                          !.todo = Tail(@),
                          !.total_events =
                              Cardinality({i \in 1..Len(hist.processed) :
                                              hist.processed[i].outcome = "created"})]
    /\ UNCHANGED <<env, localZone, now, scheduler, bucket, result, hist>>

\* process_calendars_and_create_schedules, lines 336-339: the file is done
FinishFile ==
    /\ inv.pc = "create_schedules"
    /\ UNCHANGED <<disp, sns>>
    /\ inv.idx > Len(inv.events)
    /\ inv' = [inv EXCEPT !.pc = IF Tail(inv.todo) = <<>> THEN "return" ELSE "download",
                          !.todo = Tail(@),
                          !.total_events = @ + Len(inv.events)]
    /\ UNCHANGED <<env, localZone, now, scheduler, bucket, result, hist>>

\* lambda_handler, lines 132-141
ReturnSuccess ==
    /\ inv.pc = "return"
    /\ UNCHANGED <<disp, sns>>
    /\ UNCHANGED <<env, localZone, now, scheduler, bucket>>
    /\ result' = [success |-> TRUE,
                  message |-> "Calendar processing completed successfully",
                  bucket_name |-> inv.bucket_name,
                  schedule_group |-> inv.schedule_group,
                  files_deleted |-> inv.files_deleted,
                  calendars_processed |-> Len(inv.ical_files),
                  total_events |-> inv.total_events,
                  schedules_cleared |-> TRUE]
    /\ inv' = [inv EXCEPT !.pc = "done"]
    /\ hist' = [hist EXCEPT !.post = PostSnapshot]

\* the collaborator: a requested group deletion settles; the group and all
\* its schedules are gone
Settle ==
    /\ scheduler.state = "DELETING"
    /\ UNCHANGED <<disp, sns>>
    /\ scheduler' = [state |-> "ABSENT", schedules |-> {}]
    /\ UNCHANGED <<env, localZone, now, bucket, inv, result, hist>>

\* time passes
Tick ==
    /\ \E t \in ClockValues : t > now /\ now' = t
    /\ UNCHANGED <<disp, sns>>
    /\ UNCHANGED <<env, localZone, scheduler, bucket, inv, result, hist>>

Next ==
    \/ Invoke
    \/ DeleteScheduleGroup
    \/ Sleep
    \/ CreateScheduleGroup
    \/ ClearBucket
    \/ ExtractAndUpload
    \/ ListIcalFiles
    \/ Download
    \/ CreateEventSchedule
    \/ FinishFile
    \/ ReturnSuccess
    \/ Settle
    \/ Tick

Spec == Init /\ [][Next]_vars

(***************************************************************************)
(* Properties of the rebuild protocol and of pre-validation (Spec).        *)
(***************************************************************************)
SchedulerOps ==
    {"delete_schedule_group", "sleep", "create_schedule_group", "create_schedule"}

\* the calls of the current invocation that concern the schedule group, in
\* order (the wait included)
SchedulerCalls == SelectSeq(hist.calls, LAMBDA c : c.op \in SchedulerOps)

Returned == inv.pc = "done"

PassedPreValidation ==
    /\ inv.pc \notin {"idle"}
    /\ ~Falsy(env.S3_BUCKET_NAME)
    /\ ~Falsy(env.SCHEDULE_GROUP_NAME)
    /\ inv.event.zip_file.kind \notin {"missing", "empty"}

\* C1: whenever an invocation returns success:true, the triggers in the
\* group are exactly those this invocation registered, none left over from
\* an earlier invocation, whatever the settle time of the group deletion.
FullRebuild ==
    (Returned /\ result.success) =>
        hist.post.scheduler.schedules = hist.registered

\* C2: in every invocation that passes pre-validation the collaborator sees
\* delete-group first, then create-group (after the fixed wait when the
\* group existed, directly when the delete reported it absent), then the
\* trigger registrations; no registration precedes the create-group call,
\* and the calls are all of the one invocation.
RebuildOrdering ==
    LET sc == SchedulerCalls
    IN  /\ (PassedPreValidation /\ inv.pc # "delete_schedule_group") =>
              (sc # <<>> /\ sc[1].op = "delete_schedule_group")
        /\ ~PassedPreValidation => sc = <<>>
        /\ \A i \in 1..Len(sc) :
              /\ sc[i].op = "delete_schedule_group" => i = 1
              /\ sc[i].op = "sleep" => (i = 2 /\ sc[1].state # "ABSENT")
              /\ sc[i].op = "create_schedule_group" =>
                    IF sc[1].state = "ABSENT"
                    THEN i = 2
                    ELSE i = 3 /\ sc[2].op = "sleep"
              /\ sc[i].op = "create_schedule" =>
                    \E j \in 1..(i - 1) : sc[j].op = "create_schedule_group"
        /\ (Returned /\ result.success) =>
              \E j \in 1..Len(sc) : sc[j].op = "create_schedule_group"
        /\ hist.registered # {} =>
              \E j \in 1..Len(sc) : sc[j].op = "create_schedule_group"

\* an invocation that found the group, waited, re-created it and registered
RebuildOrderingWitness ==
    LET sc == SchedulerCalls
    IN  /\ Len(sc) >= 4
        /\ sc[1].state = "ACTIVE"
        /\ sc[2].op = "sleep"
        /\ sc[3].op = "create_schedule_group"
        /\ sc[4].op = "create_schedule"
        /\ hist.registered # {}

\* C3: the planner never issues create-group, nor a trigger registration,
\* while a group deletion it requested is still in progress.
NoCreateWhileDeleting ==
    \A i \in 1..Len(hist.calls) :
        hist.calls[i].op \in {"create_schedule_group", "create_schedule"} =>
            hist.calls[i].state # "DELETING"

InvalidConfiguration ==
    LET minutes == Getenv(env, "NOTIFICATION_MINUTES_BEFORE", "15")
    IN  \/ env.NOTIFICATION_LAMBDA_ARN \in {None, ""}
        \/ env.SCHEDULER_ROLE_ARN \in {None, ""}
        \/ Getenv(env, "FALLBACK_TIMEZONE", "UTC") \notin KnownZones
        \/ minutes \notin DOMAIN IntLiteral
        \/ IntLiteral[minutes] \notin 1..1440

\* C9: an invocation whose configuration is invalid returns success:false,
\* and by then no side-effecting collaborator call has been made and no
\* occurrence has been processed.
ConfigurationErrorsFailFast ==
    (Returned /\ InvalidConfiguration) =>
        /\ ~result.success
        /\ hist.calls = <<>>
        /\ hist.processed = <<>>

\* the first problem pre-validation finds: environment before payload
FirstPreValidationProblem ==
    IF env.S3_BUCKET_NAME \in {None, ""}
    THEN "S3_BUCKET_NAME environment variable not set"
    ELSE IF env.SCHEDULE_GROUP_NAME \in {None, ""}
    THEN "SCHEDULE_GROUP_NAME environment variable not set"
    ELSE IF inv.event.zip_file.kind \in {"missing", "empty"}
    THEN "zip_file required in event payload"
    ELSE None

\* C10: with the storage or trigger-group identifier unset, or no (or an
\* empty) zip_file, lambda_handler returns {success:false, error} naming the
\* first problem, makes no collaborator call and leaves triggers and stored
\* documents as they were.
PreValidation ==
    (Returned /\ FirstPreValidationProblem # None) =>
        /\ result = [success |-> FALSE, error |-> FirstPreValidationProblem]
        /\ hist.calls = <<>>
        /\ hist.processed = <<>>
        /\ hist.post = hist.pre

\* an invocation without zip_file, refused while triggers and documents of
\* an earlier invocation are in place
PreValidationWitness ==
    /\ Returned
    /\ inv.event.zip_file.kind = "empty"
    /\ result.error = "zip_file required in event payload"
    /\ hist.pre.scheduler.schedules # {}
    /\ DOMAIN hist.pre.bucket # {}

\* the step that failed is the last step of its invocation: no collaborator
\* call and no occurrence follows it, and the invocation has returned
\* success:false with an error
AbortsAtFirstFailure ==
    /\ \A i \in 1..Len(hist.calls) :
            hist.calls[i].failed =>
                /\ i = Len(hist.calls)
                /\ Returned
                /\ DOMAIN result = {"success", "error"}
                /\ ~result.success
    /\ \A i \in 1..Len(hist.processed) :
            hist.processed[i].outcome \in {"raised", "rejected"} =>
                /\ i = Len(hist.processed)
                /\ Returned
                /\ DOMAIN result = {"success", "error"}
                /\ ~result.success

\* no rollback: what the invocation registered before it failed is in the
\* group when it returns
RegisteredTriggersRemain ==
    (Returned /\ ~result.success /\ hist.calls # <<>>) =>
        hist.registered \subseteq hist.post.scheduler.schedules

\* C12: every invocation ends by returning a mapping that holds a boolean
\* success and, when success is false, an error; no exception leaves the
\* handler.
StructuredResult ==
    /\ inv.pc # "crashed"
    /\ Returned =>
          /\ "success" \in DOMAIN result
          /\ result.success \in BOOLEAN
          /\ ~result.success => "error" \in DOMAIN result

\* C11: once the rebuild has begun, the first failure (a registration the
\* scheduler rejects, a document that does not parse) ends the invocation:
\* no trigger is registered and no document is read after it, the triggers
\* registered before it remain in the group, and the result is
\* {success:false, error}.
AbortWithoutRollback ==
    /\ AbortsAtFirstFailure
    /\ RegisteredTriggersRemain

(***************************************************************************)
(* create_event_schedule on its own (ScheduleSpec): one occurrence, the    *)
(* environment and the clock drawn from sets that put the reminder before, *)
(* at and after the current time, on both sides of both zone transitions.  *)
(***************************************************************************)
\* wall clock readings: 01:50, 02:30 (in the gap), 03:10 and 04:10 of day
\* 0; 00:50, 01:10 (read twice) and 02:10 of day 1
ScheduleWalls == {6600, 9000, 11400, 15000, 89400, 90600, 94200}

ScheduleStarts ==
    {Naive(w) : w \in ScheduleWalls}
    \cup {Aware(w, "UTC", 0) : w \in {11400, 90600}}
    \cup UNION {{Aware(w, NewYork, o) : o \in ValidOffsets(NewYork, w)} :
                   w \in ScheduleWalls}

ScheduleEvents ==
    {[summary |-> "Meeting", start_datetime |-> d, location |-> "Office",
      description |-> "", uid |-> "m1"] : d \in ScheduleStarts}

ScheduleLeads == {None, "0", "1", "60", "1440"}

ScheduleEnvironments ==
    [S3_BUCKET_NAME : {"test-bucket"},
     SCHEDULE_GROUP_NAME : {"test-group"},
     NOTIFICATION_LAMBDA_ARN : {"arn:lambda:notify"},
     SCHEDULER_ROLE_ARN : {"arn:role/scheduler"},
     NOTIFICATION_MINUTES_BEFORE : ScheduleLeads,
     FALLBACK_TIMEZONE : {None, NewYork, "Mars/Phobos"}]

\* every instant a reminder of these occurrences can fall on, and the
\* seconds next to it
ScheduleClock ==
    {w - o - 60 * IntLiteral[Getenv([m |-> l], "m", "15")] + d :
        w \in ScheduleWalls, o \in {0, -18000, -14400},
        l \in ScheduleLeads, d \in {-1, 0, 1}}

ScheduleInit ==
    /\ env \in ScheduleEnvironments
    /\ localZone \in KnownZones
    /\ now \in ScheduleClock
    /\ scheduler = [state |-> "ACTIVE", schedules |-> {}]
    /\ bucket = EmptyBucket
    /\ \E event \in ScheduleEvents :
          inv = [IdleInv EXCEPT !.pc = "create_schedules",
                                !.bucket_name = env.S3_BUCKET_NAME,
                                !.schedule_group = env.SCHEDULE_GROUP_NAME,
                                !.events = <<event>>]
    /\ result = NoResult
    /\ hist = [calls |-> <<>>, processed |-> <<>>, registered |-> {},
               pre |-> Snapshot, post |-> Snapshot, n |-> 1]
    /\ disp = IdleDisp
    /\ sns = <<>>

ScheduleNext == CreateEventSchedule

ScheduleSpec == ScheduleInit /\ [][ScheduleNext]_vars

\* the configured lead time in minutes and fallback zone (15 and UTC when
\* unset)
LeadMinutes == IntLiteral[Getenv(env, "NOTIFICATION_MINUTES_BEFORE", "15")]

FallbackZone == Getenv(env, "FALLBACK_TIMEZONE", "UTC")

\* the occurrences create_event_schedule has handled without raising
Handled ==
    {i \in 1..Len(hist.processed) : hist.processed[i].outcome # "raised"}

Zoned(p) == p.event.start_datetime.tzinfo # None

\* a create_schedule call was issued for the occurrence
Sent(p) == p.outcome \in {"created", "rejected"}

\* the absolute instants at which zone's clock reads w
InstantsOf(zone, w) ==
    {t \in {w - ZoneTable[zone].std, w - ZoneTable[zone].dst} :
        t + UtcOffset(zone, t) = w}

\* C4: for an occurrence whose start carries a zone, a trigger is
\* registered if and only if the absolute instant (start - lead minutes) is
\* strictly later than the current absolute time; otherwise no scheduler
\* call is made, the function returns normally and no error is reported.
ZonedFutureCheck ==
    \A i \in Handled :
        LET p == hist.processed[i]
            start == p.event.start_datetime
            instant == (start.wall - start.utcoffset) - 60 * LeadMinutes
        IN  Zoned(p) =>
              /\ Sent(p) <=> instant > p.now
              /\ p.outcome = "created" <=> instant > p.now
              /\ instant <= p.now =>
                    /\ p.outcome = "skipped"
                    /\ p.request = NoRequest
                    /\ hist.calls = <<>>
                    /\ scheduler.schedules = {}
                    /\ inv.pc = "create_schedules"
                    /\ result = NoResult

\* a zoned occurrence whose reminder instant is exactly now, skipped
ZonedFutureCheckWitness ==
    \E i \in Handled :
        LET p == hist.processed[i]
        IN  /\ Zoned(p)
            /\ p.event.start_datetime.tzinfo = NewYork
            /\ Epoch(p.event.start_datetime) - 60 * LeadMinutes = p.now
            /\ p.outcome = "skipped"

\* C5: for an occurrence whose start carries no zone, the decision is made
\* by reading (start - lead) in the fallback zone and comparing that instant
\* with the current absolute time, strictly; it is a function of the clock
\* reading, the lead, the fallback zone and the current time alone (the
\* process's local zone has no part in it), the same reading always
\* resolving to the same instant.
FloatingFutureCheck ==
    \A i \in Handled :
        LET p == hist.processed[i]
            reading == p.event.start_datetime.wall - 60 * LeadMinutes
            instants == InstantsOf(FallbackZone, reading)
            std == reading - ZoneTable[FallbackZone].std
            resolved == IF Cardinality(instants) = 1
                        THEN CHOOSE t \in instants : TRUE
                        ELSE std
        IN  ~Zoned(p) =>
              /\ Sent(p) <=> resolved > p.now
              /\ p.outcome = "created" <=> resolved > p.now
              /\ resolved <= p.now => (p.outcome = "skipped" /\ hist.calls = <<>>)

\* a floating occurrence read in New York by a process whose own clock is
\* UTC, registered although its reading taken as UTC is already past
FloatingFutureCheckWitness ==
    \E i \in Handled :
        LET p == hist.processed[i]
        IN  /\ ~Zoned(p)
            /\ FallbackZone = NewYork
            /\ localZone = "UTC"
            /\ p.event.start_datetime.wall - 60 * LeadMinutes <= p.now
            /\ p.outcome = "created"

\* C6: the timezone field of every registered trigger is the occurrence's
\* own zone name when the occurrence was zoned, and the configured fallback
\* timezone name when it was floating.
TimezoneField ==
    \A i \in Handled :
        LET p == hist.processed[i]
        IN  Sent(p) =>
              p.request.ScheduleExpressionTimezone =
                  (IF Zoned(p) THEN p.event.start_datetime.tzinfo ELSE FallbackZone)

\* the absolute instants the occurrence may start at: a zoned start is read
\* in its own zone, a floating one in the fallback zone
StartInstants(p) ==
    LET start == p.event.start_datetime
    IN  IF Zoned(p) THEN {Epoch(start)}
        ELSE IF InstantsOf(FallbackZone, start.wall) # {}
        THEN InstantsOf(FallbackZone, start.wall)
        ELSE {start.wall - ZoneTable[FallbackZone].std}

\* C7: the clock string and the timezone field of every registered trigger
\* denote the absolute instant that is lead minutes before the occurrence's
\* absolute start, also when the zone's offset changes in between.
ExpressionDenotesReminder ==
    \A i \in Handled :
        LET p == hist.processed[i]
            clock == p.request.ScheduleExpression[2].clock
            zone == p.request.ScheduleExpressionTimezone
        IN  Sent(p) =>
              \E s \in StartInstants(p) :
                  (s - 60 * LeadMinutes) \in InstantsOf(zone, clock)

\* C8: every ScheduleExpression sent is at(<clock>) with nothing after the
\* clock reading (no Z, no offset), zoned or floating; the zone travels in
\* the timezone field.
WireFormat ==
    /\ \A i \in Handled :
          LET p == hist.processed[i]
              expr == p.request.ScheduleExpression
          IN  Sent(p) =>
                /\ Len(expr) = 3
                /\ expr[1] = "at("
                /\ expr[3] = ")"
                /\ expr[2].suffix = <<>>
                /\ p.request.ScheduleExpressionTimezone \in KnownZones
    /\ \A sch \in scheduler.schedules :
          /\ sch.ScheduleExpression[2].suffix = <<>>
          /\ sch.ScheduleExpressionTimezone \in KnownZones

\* a trigger registered for an occurrence zoned in New York, whose
\* isoformat() would end in an offset
WireFormatWitness ==
    \E sch \in scheduler.schedules :
        /\ sch.ScheduleExpressionTimezone = NewYork
        /\ sch.Target.Input.event_time.suffix # <<>>
        /\ sch.ScheduleExpression[2].suffix = <<>>

\* the timed VEVENTs of the calendars in the bucket
TimedInBucket ==
    {ki \in UNION {{<<k, i>> : i \in 1..Len(bucket[k].vevents)} : k \in DOMAIN bucket} :
        bucket[ki[1]].vevents[ki[2]].DTSTART.type = "datetime"}

\* C14: a whole-day event is never in what get_upcoming_events returns,
\* whatever the document and the lookahead; no trigger is registered for
\* one, and total_events does not count it.
WholeDaySkipped ==
    /\ \A k \in DOMAIN bucket : \A days \in {1, 7, 30} :
          LET events == get_upcoming_events(bucket[k], days, now, localZone)
          IN  \A i \in 1..Len(events) : events[i].start_datetime.type = "datetime"
    /\ \A i \in 1..Len(inv.events) : inv.events[i].start_datetime.type = "datetime"
    /\ \A i \in 1..Len(hist.processed) :
          hist.processed[i].event.start_datetime.type = "datetime"
    /\ (Returned /\ result.success) =>
          result.total_events <= Cardinality(TimedInBucket)

\* both calendars were processed at a time when every event of theirs,
\* the birthday included, was in the window: three events are counted
WholeDaySkippedWitness ==
    /\ Returned
    /\ result.success
    /\ \E k \in DOMAIN bucket : \E i \in 1..Len(bucket[k].vevents) :
          bucket[k].vevents[i] = EvAllDay
    /\ result.total_events = 3
    /\ hist.registered # {}

\* C13: the name of every trigger is event-<uid>-<start instant in epoch
\* seconds>: it is fixed by the occurrence's uid and its start instant (for
\* a floating start, the instant the fallback zone gives it), whatever the
\* zone of the evaluating process and the lead time.
DeterministicName ==
    \A i \in Handled :
        LET p == hist.processed[i]
        IN  Sent(p) =>
                \E s \in StartInstants(p) :
                    p.request.Name = <<"event", p.event.uid, s>>

(***************************************************************************)
(* get_upcoming_events on its own (UpcomingSpec): one document, the        *)
(* lookahead, the clock and the process zone drawn; the occurrences start  *)
(* before, at and after both ends of the window, with and without          *)
(* duration.                                                               *)
(***************************************************************************)
\* wall clock readings around the ends of the windows that open at 00:00
\* and 01:00 UTC of day 0 (19:00 and 20:00 of the day before in New York)
UpcomingWalls ==
    {-90000, -18000, -3600, -1800, 0, 3600, 68400, 86400, 90000, 172800, 586800,
     604800, 608400, 864000}

UpcomingDurations == {0, 3600}

UpcomingStarts(w) == {Naive(w), Aware(w, "UTC", 0)}

UpcomingEvents ==
    {VEventUntil("Meeting", start, [start EXCEPT !.wall = @ + d], "Office", "m1") :
        start \in UNION {UpcomingStarts(w) : w \in UpcomingWalls},
        d \in UpcomingDurations}

\* documents of no, one and three events
UpcomingDocuments ==
    {Ics(<<>>), Ics(<<EvAllDay>>)}
        \cup {Ics(<<v>>) : v \in UpcomingEvents}
        \cup {Ics(<<VEvent("Day 1", Naive(86400 + w), None, "d1"), EvAllDay,
                    VEvent("Day 5", Aware(432000 + w, "UTC", 0), None, "d5")>>) :
                 w \in {0, 3600}}

LookaheadDays == {1, 7}

UpcomingClock == {0, 3600}

UpcomingInit ==
    /\ env = UnsetEnvironment
    /\ localZone \in KnownZones
    /\ now \in UpcomingClock
    /\ scheduler = [state |-> "ABSENT", schedules |-> {}]
    /\ bucket = EmptyBucket
    /\ inv \in {[IdleInv EXCEPT !.pc = "get_upcoming_events", !.ical_content = doc,
                                !.days_ahead = days] :
                   doc \in UpcomingDocuments, days \in LookaheadDays}
    /\ result = NoResult
    /\ hist = [calls |-> <<>>, processed |-> <<>>, registered |-> {},
               pre |-> Snapshot, post |-> Snapshot, n |-> 0]
    /\ disp = IdleDisp
    /\ sns = <<>>

\* get_upcoming_events(ical_content, days_ahead)
GetUpcomingEvents ==
    /\ inv.pc = "get_upcoming_events"
    /\ inv' = [inv EXCEPT !.pc = "got",
                          !.events = get_upcoming_events(inv.ical_content, inv.days_ahead,
                                                         now, localZone)]
    /\ UNCHANGED <<env, localZone, now, scheduler, bucket, result, hist, disp, sns>>

UpcomingNext == GetUpcomingEvents

UpcomingSpec == UpcomingInit /\ [][UpcomingNext]_vars

\* the wall clock get_upcoming_events opens its window at
NowWall == LocalNow(now, localZone).wall

Got == inv.pc = "got"

\* the DTSTARTs of the occurrences returned, in order
ReturnedStarts == [i \in 1..Len(inv.events) |-> inv.events[i].start_datetime]

\* the DTSTARTs of the document's timed occurrences that satisfy In, in order
TimedStarts(In(_)) ==
    LET chosen == SelectSeq(inv.ical_content.vevents,
                            LAMBDA v : v.DTSTART.type = "datetime" /\ In(v))
    IN  [i \in 1..Len(chosen) |-> chosen[i].DTSTART]

StartsInWindow(v) ==
    /\ NowWall <= v.DTSTART.wall
    /\ v.DTSTART.wall <= NowWall + inv.days_ahead * 86400

HappensInWindow(v) ==
    IF v.DTEND.wall = v.DTSTART.wall
    THEN NowWall <= v.DTSTART.wall /\ v.DTSTART.wall < NowWall + inv.days_ahead * 86400
    ELSE v.DTSTART.wall < NowWall + inv.days_ahead * 86400 /\ v.DTEND.wall > NowWall

PlannerIdle ==
    /\ env = UnsetEnvironment
    /\ localZone = "UTC"
    /\ now = 0
    /\ scheduler = [state |-> "ABSENT", schedules |-> {}]
    /\ bucket = EmptyBucket
    /\ inv = IdleInv
    /\ result = NoResult
    /\ hist = [calls |-> <<>>, processed |-> <<>>, registered |-> {},
               pre |-> Snapshot, post |-> Snapshot, n |-> 0]

DispatchInit ==
    /\ PlannerIdle
    /\ disp \in {[IdleDisp EXCEPT !.pc = "pending", !.env = e, !.event = ev] :
                    e \in DispatcherEnvironments, ev \in DispatchEvents}
    /\ sns = <<>>

\* sns.publish answers with a MessageId or raises
PublishAnswers == {"ok", "EndpointConnectionError"}

\* send_sms_notification, lines 81-99: one publish call, whose answer
\* becomes a status record; an exception becomes status "failed" with its text
send_sms_notification(answer, message_id) ==
    IF answer = "ok"
    THEN [status |-> "success", message_id |-> message_id]
    ELSE [status |-> "failed", error |-> answer]

\* variant of process_notification that drops the transport's error detail
process_notification_without_detail(event_data, message, sms) ==
    IF sms.status = "success"
    THEN [message |-> "Notification sent successfully",
          event_summary |-> event_data.event_summary,
          message_id |-> sms.message_id,
          message_length |-> Len(message),
          success |-> TRUE]
    ELSE [success |-> FALSE, error |-> "SMS sending failed"]

\* process_notification, lines 102-124: the result built from the status
\* record of the single send
process_notification(event_data, message, sms) ==
    IF sms.status = "success"
    THEN [message |-> "Notification sent successfully",
          event_summary |-> event_data.event_summary,
          message_id |-> sms.message_id,
          message_length |-> Len(message),
          success |-> TRUE]
    ELSE [success |-> FALSE, error |-> "SMS sending failed: " \o sms.error]

\* notification_service lambda_handler, lines 127-149, with
\* process_notification and send_sms_notification: the two validations run
\* outside the try block
notification_service_lambda_handler ==
    /\ disp.pc = "pending"
    /\ UNCHANGED <<env, localZone, now, scheduler, bucket, inv, result, hist>>
    /\ LET v == notification_service_validate_environment_variables(disp.env)
           p == notification_service_validate_event_payload(disp.event)
       IN  IF v.errors # <<>>
           THEN /\ disp' = [disp EXCEPT !.pc = "done",
                                        !.result = [success |-> FALSE, error |-> v.errors[1]]]
                /\ UNCHANGED sns
           ELSE IF p.raised # None
           THEN /\ disp' = [disp EXCEPT !.pc = "crashed",
                                        !.result = [errorType |-> p.raised]]
                /\ UNCHANGED sns
           ELSE IF p.errors # <<>>
           THEN /\ disp' = [disp EXCEPT !.pc = "done",
                                        !.result = [success |-> FALSE, error |-> p.errors[1]]]
                /\ UNCHANGED sns
           ELSE IF disp.event.type # "dict"
           THEN \* event_data.get raises AttributeError inside the try block
                /\ disp' = [disp EXCEPT !.pc = "done",
                                        !.minutes = v.notification_minutes,
                                        !.result = [success |-> FALSE,
                                                    error |-> "AttributeError"]]
                /\ UNCHANGED sns
           ELSE LET message == format_notification_message(disp.event,
                                                           v.notification_minutes)
                    request == PublishRequest(v.sns_topic_arn, message, "Calendar Reminder")
                    formatted == [disp EXCEPT !.pc = "done",
                                              !.minutes = v.notification_minutes,
                                              !.title = sanitize_event_summary(
                                                            disp.event.event_summary),
                                              !.message = message,
                                              !.formatted = TRUE,
                                              !.publishes = @ + 1]
                IN  \E answer \in PublishAnswers :
                      LET sms == send_sms_notification(answer, Len(sns) + 1)
                      IN  /\ sns' = IF answer = "ok" THEN Append(sns, request) ELSE sns
                          /\ disp' = [formatted EXCEPT !.result =
                                 process_notification(disp.event, message, sms)]

DispatchNext == notification_service_lambda_handler

DispatchSpec == DispatchInit /\ [][DispatchNext]_vars

FormatInit ==
    /\ PlannerIdle
    /\ disp \in {[IdleDisp EXCEPT !.pc = "format", !.event = ev, !.minutes = n] :
                    ev \in FormatEvents, n \in FormatLeads}
    /\ sns = <<>>

\* event_data.get("event_summary", "")
RawSummary(event_data) ==
    IF "event_summary" \in event_data.fields THEN event_data.event_summary ELSE Str(<<>>)

\* sanitize_event_summary and format_notification_message applied to the
\* event data and lead time drawn
FormatMessage ==
    /\ disp.pc = "format"
    /\ disp' = [disp EXCEPT
           !.pc = "formatted",
           !.title = sanitize_event_summary(RawSummary(disp.event)),
           !.message = format_notification_message(disp.event, disp.minutes),
           !.formatted = TRUE]
    /\ UNCHANGED <<env, localZone, now, scheduler, bucket, inv, result, hist, sns>>

FormatNext == FormatMessage

FormatSpec == FormatInit /\ [][FormatNext]_vars

\* the suffix " (<N>min)" of the lead time the formatter worked with
Suffix == <<" ", "(">> \o StrInt(disp.minutes) \o <<"m", "i", "n", ")">>

Ellipsis == <<".", ".", ".">>

Formatted == disp.pc = "formatted"

\* the message is not the whole title followed by the suffix
Truncated == disp.message # disp.title \o Suffix

\* C16: for every title and every lead time N in 1..1440 the message is at
\* most 160 characters long; when the title was truncated the message is
\* exactly 160 characters long and ends with "... (<N>min)".
MessageLengthBound ==
    (Formatted /\ disp.minutes \in 1..1440) =>
        /\ Len(disp.message) <= 160
        /\ Truncated =>
              /\ Len(disp.message) = 160
              /\ EndsWith(disp.message, Ellipsis \o Suffix)

\* a long title with the longest suffix, truncated to 160 characters
MessageLengthBoundWitness ==
    /\ Formatted
    /\ disp.minutes = 1440
    /\ Truncated
    /\ Len(disp.message) = 160
    /\ Len(disp.title) = MaxTitleLen

\* C17: the title is truncated if and only if the sanitized title and the
\* suffix together exceed 160 characters; when they make 160 or fewer the
\* message is the whole sanitized title followed by the suffix.
TruncationThreshold ==
    Formatted =>
        /\ (Len(disp.title) + Len(Suffix) > 160) <=> Truncated
        /\ (Len(disp.title) + Len(Suffix) <= 160) => disp.message = disp.title \o Suffix
        /\ Truncated =>
              \E k \in 0..(Len(disp.title) - 1) :
                  disp.message = SubSeq(disp.title, 1, k) \o Ellipsis \o Suffix

\* title and suffix make exactly 160 characters: nothing is cut
TruncationThresholdWitness ==
    /\ Formatted
    /\ Len(disp.title) + Len(Suffix) = 160
    /\ disp.message = disp.title \o Suffix
    /\ Len(disp.message) = 160

\* C18: sanitize_event_summary never returns the empty string: an input
\* that is absent, None, empty, all whitespace, or made only of characters
\* the sanitization removes gives "Untitled Event".
SanitizedTitleNeverEmpty == Formatted => disp.title # <<>>

\* C19: the sanitized title has no whitespace at either end, no newline and
\* no tab, and never two spaces in a row.
NormalisedWhitespace ==
    Formatted =>
        LET title == disp.title
        IN  /\ title # <<>> => ~IsSpace(title[1]) /\ ~IsSpace(title[Len(title)])
            /\ \A i \in 1..Len(title) : title[i] \notin {"\n", "\t"}
            /\ \A i \in 1..(Len(title) - 1) : ~(title[i] = " " /\ title[i + 1] = " ")

\* the required fields the payload lacks, in the order of required_fields
MissingNames == SelectSeq(required_fields, LAMBDA f : f \notin disp.event.fields)

Dispatched == disp.pc = "done"

LacksField == disp.event.type = "dict" /\ MissingNames # <<>>

ConfigurationErrors ==
    notification_service_validate_environment_variables(disp.env).errors

NothingSent == ~disp.formatted /\ disp.publishes = 0 /\ sns = <<>>

\* C20 as stated: whenever the payload lacks a required field the result
\* is success:false with one error naming every missing field, and nothing
\* is formatted or sent.
PayloadValidationAlways ==
    (Dispatched /\ LacksField) =>
        /\ disp.result = [success |-> FALSE,
                          error |-> "Missing required fields: " \o JoinComma(MissingNames)]
        /\ NothingSent

\* C20: if any of event_summary, event_time, notification_type is absent
\* from the payload, the dispatcher returns success:false and neither
\* formats a message nor calls the transport; when its configuration is
\* valid the result carries one error that names every missing field, and
\* when it is not, the error is that of the configuration, which is
\* checked first.
PayloadValidation ==
    (Dispatched /\ LacksField) =>
        /\ NothingSent
        /\ disp.result =
              [success |-> FALSE,
               error |-> IF ConfigurationErrors = <<>>
                         THEN "Missing required fields: " \o JoinComma(MissingNames)
                         ELSE ConfigurationErrors[1]]

\* a payload with event_summary only, under a valid configuration
PayloadValidationWitness ==
    /\ Dispatched
    /\ disp.event.type = "dict"
    /\ disp.event.fields = {"event_summary"}
    /\ ConfigurationErrors = <<>>
    /\ disp.result.error = "Missing required fields: event_time, notification_type"
    /\ NothingSent
\* The handler called the transport and the call failed
PublishFailed == Dispatched /\ disp.publishes > 0 /\ sns = <<>>

\* C21: every dispatcher invocation issues the publish call at most once; a
\* failed call is not retried and gives {success: false} whose error carries
\* the transport's error detail; an accepted call gives success: true with the
\* transport's message id and message_length equal to the length of the
\* message sent
DispatchAtMostOnce ==
    /\ disp.publishes <= 1
    /\ Len(sns) <= disp.publishes
    /\ PublishFailed =>
          /\ disp.result.success = FALSE
          /\ \E detail \in PublishAnswers \ {"ok"} :
                disp.result.error = "SMS sending failed: " \o detail
    /\ (Dispatched /\ Len(sns) = 1) =>
          /\ disp.result.success = TRUE
          /\ disp.result.message_id = Len(sns)
          /\ disp.result.message_length = Len(sns[1].Message)
    /\ (Dispatched /\ disp.result.success) => Len(sns) = 1

DispatchAtMostOnceWitness ==
    /\ PublishFailed
    /\ disp.publishes = 1
    /\ disp.result = [success |-> FALSE,
                      error |-> "SMS sending failed: EndpointConnectionError"]

\* The lead time of the claim: unset means 15, otherwise the integer the
\* text denotes, or -1 (in no range of lead times) when it denotes none
LeadTime ==
    LET lead == disp.env["NOTIFICATION_MINUTES_BEFORE"]
    IN  IF lead = None THEN 15
        ELSE IF lead \in DOMAIN IntLiteral THEN IntLiteral[lead] ELSE -1

LeadInRange == LeadTime \in 1..1440

TopicSet == disp.env["SNS_TOPIC_ARN"] \notin {None, ""}

\* The invocation returned a configuration error
ConfigurationRefused ==
    /\ Dispatched
    /\ ~disp.result.success
    /\ disp.result.error \in {"SNS_TOPIC_ARN environment variable not set",
                               "NOTIFICATION_MINUTES_BEFORE must be between 1 and 1440",
                               "NOTIFICATION_MINUTES_BEFORE must be a valid integer"}

\* C22: the lead time is accepted exactly when it is an integer in 1..1440
\* (unset means 15); when it is rejected or the topic reference is unset the
\* dispatcher returns {success: false} and never calls the transport
ConfigurationCheck ==
    disp.pc # "pending" =>
        /\ (~LeadInRange \/ ~TopicSet) => (ConfigurationRefused /\ NothingSent)
        /\ (LeadInRange /\ TopicSet) =>
              /\ ~ConfigurationRefused
              /\ disp.pc = "done" /\ disp.event.type = "dict" /\ ~LacksField
                    => disp.minutes = LeadTime /\ disp.publishes = 1
        /\ (TopicSet /\ ~LeadInRange) =>
              disp.result.error \in
                  {"NOTIFICATION_MINUTES_BEFORE must be between 1 and 1440",
                   "NOTIFICATION_MINUTES_BEFORE must be a valid integer"}

ConfigurationCheckWitness ==
    /\ Dispatched
    /\ TopicSet
    /\ disp.env["NOTIFICATION_MINUTES_BEFORE"] = "1441"
    /\ disp.event.type = "dict" /\ ~LacksField
    /\ ConfigurationRefused
    /\ NothingSent

(***************************************************************************)
(* The planner's failures and counts (Spec).                               *)
(***************************************************************************)
\* `t in text` of Python, on character strings
Contains(text, t) ==
    \E i \in 1..(Len(text) - Len(t) + 1) : SubSeq(text, i, i + Len(t) - 1) = t

\* The occurrence whose registration the scheduler rejected, when there is one
RejectedRegistration ==
    /\ hist.processed # <<>>
    /\ hist.processed[Len(hist.processed)].outcome = "rejected"

\* C23: when the scheduler rejects a registration, the error of the
\* {success: false} result includes the title of the occurrence whose
\* registration failed
RegistrationErrorNamesTitle ==
    (Returned /\ RejectedRegistration) =>
        /\ ~result.success
        /\ Contains(result.error, hist.processed[Len(hist.processed)].event.summary)

\* the payload holds a zip_file that cannot be decoded or unpacked
MalformedPayload == inv.event.type = "dict" /\ inv.event.zip_file = Corrupt

\* C24: an invocation whose zip_file is present but cannot be decoded or
\* unpacked returns {success: false} and leaves the trigger group and the
\* stored documents as they were when it began
MalformedArchiveLeavesState ==
    (Returned /\ MalformedPayload /\ PassedPreValidation) =>
        /\ ~result.success
        /\ hist.post.scheduler.schedules = hist.pre.scheduler.schedules
        /\ hist.post.bucket = hist.pre.bucket

\* the occurrences of this run that passed the future-check, by position
PassedFutureCheck ==
    {i \in 1..Len(hist.processed) : hist.processed[i].outcome \in {"created", "rejected"}}

\* two occurrences with the same uid and the same start epoch second
SameUidAndStart(a, b) ==
    /\ a.uid = b.uid
    /\ Timestamp(a.start_datetime, localZone) = Timestamp(b.start_datetime, localZone)

\* the pairs of the claim: both passed the future-check, the second after
\* the first
Collisions ==
    {<<i, j>> \in PassedFutureCheck \X PassedFutureCheck :
        i < j /\ SameUidAndStart(hist.processed[i].event, hist.processed[j].event)}

\* both occurrences of a pair get one name and the scheduler rejects the
\* second, which ends the run with success: false
CollisionRejected ==
    \A c \in Collisions :
        /\ hist.processed[c[1]].request.Name = hist.processed[c[2]].request.Name
        /\ hist.processed[c[2]].outcome = "rejected"
        /\ Returned /\ ~result.success

\* the trigger of the first occurrence of a pair is in the group when the
\* run returns
FirstOfCollisionStays ==
    \A c \in Collisions :
        Returned => hist.processed[c[1]].request \in hist.post.scheduler.schedules

\* C25: two occurrences of one run that pass the future-check with the same
\* uid and the same start epoch second get the same trigger name; the
\* scheduler rejects the second registration and the run ends with
\* {success: false} while the first trigger stays registered
NameCollision ==
    /\ CollisionRejected
    /\ FirstOfCollisionStays

\* the occurrences of this run by what became of them
Outcome(o) == {i \in 1..Len(hist.processed) : hist.processed[i].outcome = o}

\* C27: in every successful run total_events is the number of timed
\* occurrences found in the documents processed, those the future-check
\* discarded included; the number of triggers registered is at most
\* total_events and is smaller whenever an occurrence was discarded
TotalEvents ==
    (Returned /\ result.success) =>
        /\ result.total_events = Len(hist.processed)
        /\ result.total_events = Cardinality(Outcome("created"))
                                    + Cardinality(Outcome("skipped"))
        /\ Cardinality(hist.registered) = Cardinality(Outcome("created"))
        /\ Cardinality(hist.registered) <= result.total_events
        /\ Outcome("skipped") # {} => Cardinality(hist.registered) < result.total_events

TotalEventsWitness ==
    /\ Returned /\ result.success
    /\ Outcome("skipped") # {}
    /\ Outcome("created") # {}
    /\ result.calendars_processed = 2
    /\ result.total_events = 3

(***************************************************************************)
(* The rebuild from a large archive (BulkSpec): the handler from the       *)
(* upload on, the schedules and the bucket already cleared, for archives   *)
(* of numbered calendars up to one more than a page of list_objects_v2.    *)
(***************************************************************************)
\* an archive of n numbered calendars and a text file; the last calendar
\* holds an occurrence, the others none
BulkArchive(n) ==
    ZipOf([i \in 1..n |-> Entry(BulkName(i), IF i = n THEN Ics(<<EvUtc>>) ELSE Ics(<<>>))]
              \o <<Entry("readme.txt", NoDoc)>>)

BulkSizes == {1, 2, MaxKeys, MaxKeys + 1}

BulkInit ==
    /\ env \in {e \in Environments :
                    /\ validate_environment_variables(e).errors = <<>>
                    /\ get_schedule_configuration(e).raised = None
                    /\ e["FALLBACK_TIMEZONE"] = None}
    /\ localZone = "UTC"
    /\ now = 0
    /\ scheduler = [state |-> "ACTIVE", schedules |-> {}]
    /\ bucket = EmptyBucket
    /\ \E n \in BulkSizes :
          inv = [IdleInv EXCEPT !.pc = "extract_and_upload",
                                !.event = [type |-> "dict", zip_file |-> BulkArchive(n)],
                                !.bucket_name = env.S3_BUCKET_NAME,
                                !.schedule_group = env.SCHEDULE_GROUP_NAME]
    /\ result = NoResult
    /\ hist = [calls |-> <<Call("clear_bucket")>>, processed |-> <<>>, registered |-> {},
               pre |-> Snapshot, post |-> Snapshot, n |-> 1]
    /\ disp = IdleDisp
    /\ sns = <<>>

BulkNext ==
    \/ ExtractAndUpload
    \/ ListIcalFiles
    \/ Download
    \/ CreateEventSchedule
    \/ FinishFile
    \/ ReturnSuccess

BulkSpec == BulkInit /\ [][BulkNext]_vars

\* the names of the .ics entries of the submitted archive
IcsEntries ==
    LET found == extract_ical_files_from_zip(inv.event.zip_file.entries)
    IN  {found[i].filename : i \in 1..Len(found)}

\* the number of documents this run fetched from storage
DocumentsRead ==
    Cardinality({i \in 1..Len(hist.calls) : hist.calls[i].op = "get_object"})

\* C28: in every successful run the documents from which triggers are
\* derived are exactly the .ics entries of the submitted archive: the
\* documents listed for processing are those entries, storage holds them
\* and no other object, each of them is read, calendars_processed is their
\* number, and files_deleted is the number of objects that were in storage
\* when the run began
DocumentsFromArchive ==
    /\ (inv.pc = "download" /\ DocumentsRead = 0) =>
          {inv.todo[i] : i \in 1..Len(inv.todo)} = IcsEntries
    /\ (Returned /\ result.success) =>
          /\ DOMAIN bucket = IcsEntries
          /\ DocumentsRead = Cardinality(IcsEntries)
          /\ result.calendars_processed = Cardinality(IcsEntries)
          /\ result.files_deleted = Cardinality(DOMAIN hist.pre.bucket)

(***************************************************************************)
(* The payload between planner and dispatcher (ScheduleSpec).              *)
(***************************************************************************)
\* the characters of a text, one by one
Characters(text) == [i \in 1..Len(text) |-> SubSeq(text, i, i)]

\* the event the dispatcher is invoked with when a trigger fires: the
\* mapping that json.dumps wrote into the trigger's Input, parsed again
Delivered(input) ==
    DictEvent(DOMAIN input, Str(Characters(input.event_summary)))

\* C29: every payload the planner attaches to a trigger holds event_summary,
\* event_location, event_time (the ISO-8601 rendering of the occurrence
\* start) and notification_type = "calendar_reminder", and the dispatcher's
\* payload validation accepts it
PayloadAgreement ==
    \A i \in Handled :
        LET p == hist.processed[i]
            input == p.request.Target.Input
            validated == notification_service_validate_event_payload(Delivered(input))
        IN  Sent(p) =>
              /\ {"event_summary", "event_location", "event_time",
                   "notification_type"} \subseteq DOMAIN input
              /\ input.event_summary = p.event.summary
              /\ input.event_location = p.event.location
              /\ input.event_time = IsoFormat(p.event.start_datetime)
              /\ input.notification_type = "calendar_reminder"
              /\ validated.raised = None
              /\ validated.errors = <<>>

PayloadAgreementWitness ==
    \E i \in Handled :
        /\ hist.processed[i].outcome = "created"
        /\ hist.processed[i].request \in scheduler.schedules
        /\ Delivered(hist.processed[i].request.Target.Input).event_summary
                = Str(<<"M", "e", "e", "t", "i", "n", "g">>)

(***************************************************************************)
(* Sanitization applied twice (FormatSpec).                                *)
(***************************************************************************)
\* C30: sanitize_event_summary is idempotent: the sanitized title of every
\* title (printable, whitespace and control characters) is its own sanitized
\* title
SanitizeIdempotent ==
    Formatted => sanitize_event_summary(Str(disp.title)) = disp.title

(***************************************************************************)
(* Termination (LiveSpec): planner and dispatcher invocations side by      *)
(* side.  The runtime runs a handler that has begun to its end, and every  *)
(* collaborator call returns or fails, so the steps of both handlers are   *)
(* weakly fair; the arrival of invocations and the settling of a group    *)
(* deletion are not.  The invocation begins at any of the clock readings.  *)
(***************************************************************************)
LiveEnvironments ==
    {e \in Environments :
        /\ validate_environment_variables(e).errors = <<>>
        /\ get_schedule_configuration(e).raised = None
        /\ e["NOTIFICATION_MINUTES_BEFORE"] = None
        /\ e["FALLBACK_TIMEZONE"] = None}

LiveDispatches ==
    {[IdleDisp EXCEPT !.pc = "pending", !.env = e, !.event = ev] :
        e \in {d \in DispatcherEnvironments :
                  /\ d["SNS_TOPIC_ARN"] # None
                  /\ d["NOTIFICATION_MINUTES_BEFORE"] = None},
        ev \in {DictEvent({"event_summary", "event_time", "notification_type"},
                          Str(<<"A">>)),
                [type |-> "NoneType", fields |-> {}, event_summary |-> NoneValue]}}

\* the group as earlier invocations may have left it: absent, active, or
\* with its deletion pending
LiveInit ==
    /\ env \in LiveEnvironments
    /\ localZone = "UTC"
    /\ now \in ClockValues
    /\ scheduler \in {[state |-> st, schedules |-> {}] :
                         st \in {"ABSENT", "ACTIVE", "DELETING"}}
    /\ bucket = EmptyBucket
    /\ inv = IdleInv
    /\ result = NoResult
    /\ hist = [calls |-> <<>>, processed |-> <<>>, registered |-> {},
               pre |-> Snapshot, post |-> Snapshot, n |-> MaxInvocations - 1]
    /\ disp \in LiveDispatches
    /\ sns = <<>>

\* a step of the planner's handler after the invocation has begun
HandlerStep ==
    \/ DeleteScheduleGroup
    \/ Sleep
    \/ CreateScheduleGroup
    \/ ClearBucket
    \/ ExtractAndUpload
    \/ ListIcalFiles
    \/ Download
    \/ CreateEventSchedule
    \/ FinishFile
    \/ ReturnSuccess

LiveNext ==
    \/ Invoke
    \/ HandlerStep
    \/ Settle
    \/ notification_service_lambda_handler

LiveSpec ==
    /\ LiveInit
    /\ [][LiveNext]_vars
    /\ WF_vars(HandlerStep)
    /\ WF_vars(notification_service_lambda_handler)

\* a planner invocation is under way
Running == inv.pc \notin {"idle", "done", "crashed"}

\* the waits of the invocation
Waits == {i \in 1..Len(hist.calls) : hist.calls[i].op = "sleep"}

\* an invocation waits once at most and hands at most one occurrence per
\* timed VEVENT of the stored documents to the scheduler
BoundedWork ==
    /\ Cardinality(Waits) <= 1
    /\ Len(hist.processed) <= Cardinality(TimedInBucket)

\* C26: every planner invocation under way returns a result, after one wait
\* of fixed length at most and finitely many registrations, whether or not
\* the group deletion settles; every dispatcher invocation ends (it returns
\* a result or, for a payload that is no mapping, raises out of its payload
\* validation)
InvocationsTerminate ==
    /\ []BoundedWork
    /\ Running ~> Returned
    /\ (disp.pc = "pending") ~> (disp.pc \in {"done", "crashed"})

InvocationsTerminateWitness ==
    /\ Returned
    /\ Cardinality(Waits) = 1
    /\ hist.registered # {}
    /\ scheduler.state = "DELETING"
    /\ disp.pc = "done"

====
